---------------------------- MODULE Spec2Model ----------------------------
(***************************************************************************)
(* A model of the paper pipeline of scripts/: the harvester                *)
(* (arxiv_manager_min.py), the classifier (classify_papers.py) and the     *)
(* tagger (tag_papers.py).  One run of one script is a sequence of steps   *)
(* of its main thread and, for the classifier and the tagger, of the       *)
(* worker threads of its ThreadPoolExecutor.  Files persist between runs.  *)
(***************************************************************************)
EXTENDS Integers, Sequences, FiniteSets, TLC

VARIABLES
    prog,             \* which script runs: "harvest", "classify", "tag"
    run,              \* number of the current run of the script
    pc,               \* position of the main thread
    args,             \* the parsed command line of the current run
    fs,               \* the file system: path -> [st, data]
    old,              \* fs as it was when the current run started
    nwrites,          \* writes of this run that touched a final path
    qi,               \* harvester: index of the query being fetched
    new_items,        \* harvester: accumulated records
    seen_urls,        \* harvester: identifiers accumulated so far
    yielded,          \* harvester: every [query, item] yielded so far, in order
    qend,             \* harvester: how each finished query's stream ended
    existing_data,    \* harvester: the persisted collection as loaded
    merged,           \* harvester: the merged collection
    add_count,        \* harvester: number of new records
    data,             \* classifier data / tagger all_papers (input list)
    labeled_data,     \* classifier labeled_data / tagger existing_papers
    diff_mode,        \* classifier: the diff branch was taken
    items_to_process, \* indices into data of the selected records
    final_data,       \* the collection handed to the final save
    processed_count,  \* the shared progress counter
    loaded,           \* per worker: the value of the counter it has read
    lock,             \* holder of the lock (0: free)
    next_item,        \* next position of items_to_process to hand out
    wpc,              \* per worker: position in process_wrapper
    witem,            \* per worker: position in items_to_process it holds
    attempt,          \* per worker: query_model's attempt
    calls,            \* per worker: external calls made for its record
    waits,            \* per worker: the backoff delays slept for its record
    outcome           \* per selected record: "pending", "ok", "failed", "skipped"

vars == << prog, run, pc, args, fs, old, nwrites, qi, new_items, seen_urls,
           yielded, qend, existing_data, merged, add_count, data,
           labeled_data, diff_mode, items_to_process, final_data,
           processed_count, loaded, lock, next_item, wpc, witem, attempt, calls,
           waits, outcome >>

harvestVars == << qi, new_items, seen_urls, yielded, qend, existing_data,
                  merged, add_count >>

batchVars == << processed_count, loaded, lock, next_item, wpc, witem, attempt,
                calls, waits, outcome >>

annotateVars == << data, labeled_data, diff_mode, items_to_process,
                   final_data >>

-----------------------------------------------------------------------------
(* Bounds of the model *)

MaxRuns == 2
NumQueries == 2
MaxYield == 3
MaxInput == 2
Jobs == 2

(* Program constants *)

MAX_RETRY == 3
RETRY_BACKOFF_SEC == 5

-----------------------------------------------------------------------------
(* Records and collections *)

\* Identifiers the search service returns (entry_id).
HarvestUrls == {"a", "b"}

\* Identifiers of classifier and tagger inputs; "" is a falsy url, which
\* item.get("url") filters out of the identifier sets.
Urls == {"a", "b", ""}

\* published, an ISO-8601 string ordered as time: modelled by its rank.
Dates == {1, 2}

Range(s) == {s[k] : k \in 1..Len(s)}

UrlsOf(s) == {s[k].url : k \in 1..Len(s)}

Has(item, f) == f \in DOMAIN item

DistinctUrls(s) == \A j, k \in 1..Len(s) : j # k => s[j].url # s[k].url

Descending(s) == \A k \in 1..(Len(s) - 1) : s[k].published >= s[k + 1].published

SeqsUpTo(S, n) == UNION {[1..k -> S] : k \in 0..n}

\* list.sort(key=published, reverse=True): a stable sort, records of equal
\* published keep their relative order.
RECURSIVE InsertDesc(_, _)
InsertDesc(x, s) ==
    IF s = <<>> THEN <<x>>
    ELSE IF Head(s).published <= x.published THEN <<x>> \o s
    ELSE <<Head(s)>> \o InsertDesc(x, Tail(s))

RECURSIVE SortDesc(_)
SortDesc(s) ==
    IF s = <<>> THEN <<>> ELSE InsertDesc(Head(s), SortDesc(Tail(s)))

-----------------------------------------------------------------------------
(* Text: a Python str is modelled as the sequence of its characters *)

UpperCase == << "A", "B", "C", "D", "E", "F", "G", "H", "I", "J", "K", "L", "M",
               "N", "O", "P", "Q", "R", "S", "T", "U", "V", "W", "X", "Y", "Z" >>
LowerCase == << "a", "b", "c", "d", "e", "f", "g", "h", "i", "j", "k", "l", "m",
               "n", "o", "p", "q", "r", "s", "t", "u", "v", "w", "x", "y", "z" >>
Whitespace == {" ", "\n", "\t"}

LowerChar(c) ==
    IF \E k \in 1..26 : UpperCase[k] = c
    THEN LowerCase[CHOOSE k \in 1..26 : UpperCase[k] = c]
    ELSE c

\* str.lower()
lower(s) == [k \in 1..Len(s) |-> LowerChar(s[k])]

\* str.strip()
RECURSIVE lstrip(_)
lstrip(s) ==
    IF s # <<>> /\ Head(s) \in Whitespace THEN lstrip(Tail(s)) ELSE s

RECURSIVE rstrip(_)
rstrip(s) ==
    IF s # <<>> /\ s[Len(s)] \in Whitespace
    THEN rstrip(SubSeq(s, 1, Len(s) - 1))
    ELSE s

strip(s) == rstrip(lstrip(s))

\* str.startswith(prefix)
startswith(s, prefix) ==
    Len(prefix) <= Len(s) /\ SubSeq(s, 1, Len(prefix)) = prefix

\* sub in s
contains(s, sub) ==
    \E k \in 0..(Len(s) - Len(sub)) : SubSeq(s, k + 1, k + Len(sub)) = sub

\* str.split(","): the fragments between commas (at least one, maybe empty).
RECURSIVE split(_)
split(s) ==
    IF \A k \in 1..Len(s) : s[k] # ","
    THEN << s >>
    ELSE LET c == CHOOSE k \in 1..Len(s) :
                      s[k] = "," /\ \A j \in 1..(k - 1) : s[j] # ","
         IN  << SubSeq(s, 1, c - 1) >> \o split(SubSeq(s, c + 1, Len(s)))

\* The fixed vocabulary, and each entry's characters.
VALID_TAGS == << "Verification", "Synthesis", "P&R", "Analog Design", "System-level Optimization",
                "Code Generation", "Security", "Testing", "Other" >>

TagText == <<
    << "V", "e", "r", "i", "f", "i", "c", "a", "t", "i", "o", "n" >>,
    << "S", "y", "n", "t", "h", "e", "s", "i", "s" >>,
    << "P", "&", "R" >>,
    << "A", "n", "a", "l", "o", "g", " ", "D", "e", "s", "i", "g", "n" >>,
    << "S", "y", "s", "t", "e", "m", "-", "l", "e", "v", "e", "l", " ", "O", "p", "t", "i", "m", "i", "z", "a", "t", "i", "o", "n" >>,
    << "C", "o", "d", "e", " ", "G", "e", "n", "e", "r", "a", "t", "i", "o", "n" >>,
    << "S", "e", "c", "u", "r", "i", "t", "y" >>,
    << "T", "e", "s", "t", "i", "n", "g" >>,
    << "O", "t", "h", "e", "r" >>
    >>

\* What the chat service may answer to the classifier's prompt.
ClassifyResponses == {
    << "t", "r", "u", "e" >>,
    << "T", "r", "u", "e", "." >>,
    << "f", "a", "l", "s", "e" >>,
    << "n", "o" >>,
    << " ", "T", "h", "a", "t" >> }

\* What the chat service may answer to the tagger's prompt.
TagResponses == {
    << "V", "e", "r", "i", "f", "i", "c", "a", "t", "i", "o", "n" >>,
    << "C", "o", "d", "e", " ", "G", "e", "n", "e", "r", "a", "t", "i", "o", "n", ",", " ", "V", "e", "r", "i", "f", "i", "c", "a", "t", "i", "o", "n" >>,
    << "s", "e", "c", "u", "r", "i", "t", "y", ",", " ", "P", "&", "R", " ", ",", "T", "e", "s", "t", "i", "n", "g", " ", "a", "n", "d", " ", "s", "y", "n", "t", "h", "e", "s", "i", "s", ",", "v", "e", "r", "i", "f", "i", "c", "a", "t", "i", "o", "n" >>,
    << "h", "a", "r", "d", "w", "a", "r", "e" >> }

\* classify_papers.query_model: ans = content.strip().lower()
classify_ans(content) == lower(strip(content))

\* classify_item: label = result.startswith("t")
label(result) == startswith(result, << "t" >>)

\* tag_papers.query_model: ans = content.strip()
tag_ans(content) == strip(content)

\* tag_item: the inner loop over VALID_TAGS from the j-th entry on, for one
\* fragment of the answer.
RECURSIVE ScanVocabulary(_, _, _)
ScanVocabulary(raw_tag, j, found) ==
    IF j > Len(VALID_TAGS) THEN found
    ELSE ScanVocabulary(raw_tag, j + 1,
             IF /\ contains(lower(raw_tag), lower(TagText[j]))
                /\ VALID_TAGS[j] \notin Range(found)
             THEN Append(found, VALID_TAGS[j])
             ELSE found)

\* tag_item: the outer loop over the fragments.
RECURSIVE ScanFragments(_, _)
ScanFragments(raw_tags, found) ==
    IF raw_tags = <<>> THEN found
    ELSE ScanFragments(Tail(raw_tags), ScanVocabulary(Head(raw_tags), 1, found))

\* The loop over VALID_TAGS as the outer one: for each entry from the j-th
\* on, whether some fragment has it.
RECURSIVE ScanVocabularyFirst(_, _, _)
ScanVocabularyFirst(raw_tags, j, found) ==
    IF j > Len(VALID_TAGS) THEN found
    ELSE ScanVocabularyFirst(raw_tags, j + 1,
             IF \E k \in 1..Len(raw_tags) :
                    contains(lower(raw_tags[k]), lower(TagText[j]))
             THEN Append(found, VALID_TAGS[j])
             ELSE found)

\* found_tags with the entries in the order of VALID_TAGS.
found_tagsVocabularyFirst(result_str) ==
    LET parts == split(result_str)
        raw_tags == [k \in 1..Len(parts) |-> strip(parts[k])]
        found == ScanVocabularyFirst(raw_tags, 1, <<>>)
    IN  IF found = <<>> THEN << "Other" >> ELSE found

\* found_tags without the fallback to "Other".
found_tagsNoFallback(result_str) ==
    LET parts == split(result_str)
        raw_tags == [k \in 1..Len(parts) |-> strip(parts[k])]
    IN  ScanFragments(raw_tags, <<>>)

\* tag_item: the tags list assigned for an answer.
found_tags(result_str) ==
    LET parts == split(result_str)
        raw_tags == [k \in 1..Len(parts) |-> strip(parts[k])]
        found == ScanFragments(raw_tags, <<>>)
    IN  IF found = <<>> THEN << "Other" >> ELSE found

-----------------------------------------------------------------------------
(* Files *)

Paths == {"papers", "labeled", "labeled.tmp", "filtered", "filtered.tmp",
          "unlabeled", "tagged"}

Absent == [st |-> "absent", data |-> <<>>]
Partial == [st |-> "partial", data |-> <<>>]
File(s) == [st |-> "ok", data |-> s]

\* isfile answering yes for every path.
isfileAlways(p) == TRUE

\* os.path.isfile(p)
isfile(p) == fs[p].st # "absent"

Terminal == {"done", "exit1", "crash", "killed"}


-----------------------------------------------------------------------------
(* Initial state *)

Progs == {"harvest", "classify", "tag"}

ArgsOf(p) ==
    IF p = "harvest"
    THEN [mode : {0, 1}, overwrite : {FALSE}, diff_against : {FALSE}]
    ELSE IF p = "classify"
    THEN [mode : {0}, overwrite : BOOLEAN, diff_against : BOOLEAN]
    ELSE [mode : {0}, overwrite : BOOLEAN, diff_against : {FALSE}]

\* Records the search service yields.
HarvestRecords == [url : HarvestUrls, published : Dates]

NoFiles == [p \in Paths |-> Absent]

IdleWorkers == [w \in 1..Jobs |-> "idle"]
NoItems == [w \in 1..Jobs |-> 0]
NoWaits == [w \in 1..Jobs |-> <<>>]

MemoryInit ==
    /\ qi = 1
    /\ new_items = <<>>
    /\ seen_urls = {}
    /\ yielded = <<>>
    /\ qend = <<>>
    /\ existing_data = <<>>
    /\ merged = <<>>
    /\ add_count = 0
    /\ data = <<>>
    /\ labeled_data = <<>>
    /\ diff_mode = FALSE
    /\ items_to_process = <<>>
    /\ final_data = <<>>
    /\ processed_count = 0
    /\ loaded = NoItems
    /\ lock = 0
    /\ next_item = 1
    /\ wpc = IdleWorkers
    /\ witem = NoItems
    /\ attempt = NoItems
    /\ calls = NoItems
    /\ waits = NoWaits
    /\ outcome = <<>>

\* The same memory but final_data, as the next state.
MemoryReset ==
    /\ qi' = 1
    /\ new_items' = <<>>
    /\ seen_urls' = {}
    /\ yielded' = <<>>
    /\ qend' = <<>>
    /\ existing_data' = <<>>
    /\ merged' = <<>>
    /\ add_count' = 0
    /\ data' = <<>>
    /\ labeled_data' = <<>>
    /\ diff_mode' = FALSE
    /\ items_to_process' = <<>>
    /\ processed_count' = 0
    /\ loaded' = NoItems
    /\ lock' = 0
    /\ next_item' = 1
    /\ wpc' = IdleWorkers
    /\ witem' = NoItems
    /\ attempt' = NoItems
    /\ calls' = NoItems
    /\ waits' = NoWaits
    /\ outcome' = <<>>

InitHarvest ==
    /\ prog = "harvest"
    /\ run = 1
    /\ pc = "start"
    /\ args \in ArgsOf("harvest")
    /\ fs = NoFiles
    /\ old = fs
    /\ nwrites = 0
    /\ MemoryInit

\* published of the paper with a given url in the classifier's and the
\* tagger's inputs: "a" is the newest, the other two are of the same date.
Pub(u) == IF u = "a" THEN 2 ELSE 1

\* Records of the classifier's input: as harvested, or carrying a label.
ClassifyRecords ==
    LET plain == {[url |-> u, published |-> Pub(u)] : u \in Urls}
    IN  plain \cup {[url |-> r.url, published |-> r.published, ai_for_hw |-> TRUE] :
                        r \in plain}

\* Records of the tagger's input: the classifier's filtered view, or a
\* record that carries tags already (the input being a tagged file).
TagRecords ==
    {[url |-> u, published |-> Pub(u), ai_for_hw |-> TRUE] : u \in Urls}
        \cup {[url |-> "a", published |-> Pub("a"), ai_for_hw |-> TRUE,
                tags |-> << "Security" >>]}

\* The collections of at most MaxInput records with pairwise distinct urls.
Collections(S) == {s \in SeqsUpTo(S, MaxInput) : DistinctUrls(s)}

InitClassify ==
    /\ prog = "classify"
    /\ run = 1
    /\ pc = "start"
    /\ args \in ArgsOf("classify")
    /\ \E f \in {Absent} \cup {File(s) : s \in Collections(ClassifyRecords)} :
           fs = [NoFiles EXCEPT !["papers"] = f]
    /\ old = fs
    /\ nwrites = 0
    /\ MemoryInit

InitTag ==
    /\ prog = "tag"
    /\ run = 1
    /\ pc = "start"
    /\ args \in ArgsOf("tag")
    /\ \E f \in {Absent} \cup {File(s) : s \in Collections(TagRecords)} :
           fs = [NoFiles EXCEPT !["filtered"] = f]
    /\ old = fs
    /\ nwrites = 0
    /\ MemoryInit

-----------------------------------------------------------------------------
(* The harvester: arxiv_manager_min.py *)

\* HYield without the seen_urls test.
HYieldUnchecked(rec) ==
    /\ prog = "harvest"
    /\ pc = "start"
    /\ qi <= NumQueries
    /\ Len(yielded) < MaxYield
    /\ yielded' = Append(yielded, [query |-> qi, item |-> rec])
    /\ new_items' = Append(new_items, rec)
    /\ seen_urls' = seen_urls \cup {rec.url}
    /\ UNCHANGED << prog, run, pc, args, fs, old, nwrites, qi, qend,
                    existing_data, merged, add_count >>
    /\ UNCHANGED << data, labeled_data, diff_mode, items_to_process,
                    final_data, processed_count, loaded, lock, next_item, wpc, witem,
                    attempt, calls, waits, outcome >>

\* for item in fetch_papers(q, ...): one record yielded by the current
\* query's stream, and the loop body of main that consumes it.
HYield(rec) ==
    /\ prog = "harvest"
    /\ pc = "start"
    /\ qi <= NumQueries
    /\ Len(yielded) < MaxYield
    /\ yielded' = Append(yielded, [query |-> qi, item |-> rec])
    /\ IF rec.url \in seen_urls
       THEN UNCHANGED << new_items, seen_urls >>
       ELSE /\ new_items' = Append(new_items, rec)
            /\ seen_urls' = seen_urls \cup {rec.url}
    /\ UNCHANGED << prog, run, pc, args, fs, old, nwrites, qi, qend,
                    existing_data, merged, add_count >>
    /\ UNCHANGED << annotateVars, batchVars >>

\* The current query's stream ends: how says which way fetch_papers left
\* its loop.  In each of the three the generator returns and main goes on
\* with the next query.
EndQuery(how) ==
    /\ prog = "harvest"
    /\ pc = "start"
    /\ qi <= NumQueries
    /\ qi' = qi + 1
    /\ qend' = Append(qend, how)
    /\ UNCHANGED << prog, run, pc, args, fs, old, nwrites, new_items,
                    seen_urls, yielded, existing_data, merged, add_count >>
    /\ UNCHANGED << annotateVars, batchVars >>

\* client.results(search) is exhausted.
HFinished == EndQuery("finished")

\* except UnexpectedEmptyPageError
HEmptyPage == EndQuery("empty_page")

\* HError with the exception leaving fetch_papers and ending main.
HErrorEscapes ==
    /\ prog = "harvest"
    /\ pc = "start"
    /\ qi <= NumQueries
    /\ pc' = "crash"
    /\ UNCHANGED << prog, run, args, fs, old, nwrites, qi, qend, new_items,
                    seen_urls, yielded, existing_data, merged, add_count >>
    /\ UNCHANGED << data, labeled_data, diff_mode, items_to_process,
                    final_data, processed_count, loaded, lock, next_item, wpc, witem,
                    attempt, calls, waits, outcome >>

\* except Exception
HError == EndQuery("error")

\* The records of new_items whose url is not in existing_urls, in order.
NewOnes(items, existing_urls) ==
    SelectSeq(items, LAMBDA r : r.url \notin existing_urls)

\* load_existing(path): ([], set()) when there is no file.
load_existing(p) == IF isfile(p) THEN fs[p].data ELSE <<>>

\* HMerge with the new records put after the persisted ones.
HMergeAppends ==
    /\ prog = "harvest"
    /\ pc = "start"
    /\ qi > NumQueries
    /\ new_items' = SortDesc(new_items)
    /\ IF args.mode = 0
       THEN /\ pc' = "save"
            /\ final_data' = new_items'
            /\ UNCHANGED << existing_data, merged, add_count >>
       ELSE IF fs["papers"].st = "partial"
       THEN \* json.load raises JSONDecodeError, which nothing catches
            /\ pc' = "crash"
            /\ UNCHANGED << existing_data, merged, add_count, final_data >>
       ELSE /\ existing_data' = load_existing("papers")
            /\ merged' = existing_data'
                              \o NewOnes(new_items', UrlsOf(existing_data'))
            /\ add_count' = Len(NewOnes(new_items', UrlsOf(existing_data')))
            /\ final_data' = merged'
            /\ pc' = IF add_count' = 0 THEN "done" ELSE "save"
    /\ UNCHANGED << prog, run, args, fs, old, nwrites, qi, seen_urls,
                    yielded, qend >>
    /\ UNCHANGED << data, labeled_data, diff_mode, items_to_process >>
    /\ UNCHANGED batchVars

\* HMerge without the test of add_count.
HMergeAlwaysSaves ==
    /\ prog = "harvest"
    /\ pc = "start"
    /\ qi > NumQueries
    /\ new_items' = SortDesc(new_items)
    /\ IF args.mode = 0
       THEN /\ pc' = "save"
            /\ final_data' = new_items'
            /\ UNCHANGED << existing_data, merged, add_count >>
       ELSE IF fs["papers"].st = "partial"
       THEN \* json.load raises JSONDecodeError, which nothing catches
            /\ pc' = "crash"
            /\ UNCHANGED << existing_data, merged, add_count, final_data >>
       ELSE /\ existing_data' = load_existing("papers")
            /\ merged' = NewOnes(new_items', UrlsOf(existing_data'))
                              \o existing_data'
            /\ add_count' = Len(NewOnes(new_items', UrlsOf(existing_data')))
            /\ final_data' = merged'
            /\ pc' = "save"
    /\ UNCHANGED << prog, run, args, fs, old, nwrites, qi, seen_urls,
                    yielded, qend >>
    /\ UNCHANGED << data, labeled_data, diff_mode, items_to_process >>
    /\ UNCHANGED batchVars

\* HMerge with the harvested record taking the place of the persisted one
\* of the same url.
HMergeOverwrites ==
    /\ prog = "harvest"
    /\ pc = "start"
    /\ qi > NumQueries
    /\ new_items' = SortDesc(new_items)
    /\ IF args.mode = 0
       THEN /\ pc' = "save"
            /\ final_data' = new_items'
            /\ UNCHANGED << existing_data, merged, add_count >>
       ELSE IF fs["papers"].st = "partial"
       THEN \* json.load raises JSONDecodeError, which nothing catches
            /\ pc' = "crash"
            /\ UNCHANGED << existing_data, merged, add_count, final_data >>
       ELSE /\ existing_data' = load_existing("papers")
            /\ merged' = new_items'
                              \o NewOnes(existing_data', UrlsOf(new_items'))
            /\ add_count' = Len(NewOnes(new_items', UrlsOf(existing_data')))
            /\ final_data' = merged'
            /\ pc' = IF add_count' = 0 THEN "done" ELSE "save"
    /\ UNCHANGED << prog, run, args, fs, old, nwrites, qi, seen_urls,
                    yielded, qend >>
    /\ UNCHANGED << data, labeled_data, diff_mode, items_to_process >>
    /\ UNCHANGED batchVars

\* After the last query: sort, then by mode either go and overwrite, or
\* load the persisted collection, merge, and go and save if anything is new.
HMerge ==
    /\ prog = "harvest"
    /\ pc = "start"
    /\ qi > NumQueries
    /\ new_items' = SortDesc(new_items)
    /\ IF args.mode = 0
       THEN /\ pc' = "save"
            /\ final_data' = new_items'
            /\ UNCHANGED << existing_data, merged, add_count >>
       ELSE IF fs["papers"].st = "partial"
       THEN \* json.load raises JSONDecodeError, which nothing catches
            /\ pc' = "crash"
            /\ UNCHANGED << existing_data, merged, add_count, final_data >>
       ELSE /\ existing_data' = load_existing("papers")
            /\ merged' = NewOnes(new_items', UrlsOf(existing_data'))
                              \o existing_data'
            /\ add_count' = Len(NewOnes(new_items', UrlsOf(existing_data')))
            /\ final_data' = merged'
            /\ pc' = IF add_count' = 0 THEN "done" ELSE "save"
    /\ UNCHANGED << prog, run, args, fs, old, nwrites, qi, seen_urls,
                    yielded, qend >>
    /\ UNCHANGED << data, labeled_data, diff_mode, items_to_process >>
    /\ UNCHANGED batchVars

\* save_json: open(path, "w") truncates the file at the final path.
HOpen ==
    /\ prog = "harvest"
    /\ pc = "save"
    /\ fs' = [fs EXCEPT !["papers"] = Partial]
    /\ nwrites' = nwrites + 1
    /\ pc' = "dump"
    /\ UNCHANGED << prog, run, args, old >>
    /\ UNCHANGED << harvestVars, annotateVars, batchVars >>

\* save_json: json.dump writes the collection and the file is closed.
HDump ==
    /\ prog = "harvest"
    /\ pc = "dump"
    /\ fs' = [fs EXCEPT !["papers"] = File(final_data)]
    /\ pc' = "done"
    /\ UNCHANGED << prog, run, args, old, nwrites >>
    /\ UNCHANGED << harvestVars, annotateVars, batchVars >>

-----------------------------------------------------------------------------
(* The annotation batch: process_wrapper on the executor's worker threads *)

Workers == 1..Jobs

\* The record a worker holds: items_to_process holds references into data.
ItemOf(w) == items_to_process[witem[w]]

\* item[f] = v
SetField(item, f, v) == (f :> v) @@ item

\* TruthyUrls forgetting the identifiers: the empty set.
TruthyUrlsNone(s) == {}

\* {item.get("url") for item in s if item.get("url")}
TruthyUrls(s) == {s[k].url : k \in {j \in 1..Len(s) : s[j].url # ""}}

\* The positions in S, in list order: what a list comprehension keeps.
RECURSIVE Ascending(_)
Ascending(S) ==
    IF S = {} THEN <<>>
    ELSE LET m == CHOOSE x \in S : \A y \in S : x <= y
         IN  << m >> \o Ascending(S \ {m})

\* The records items_to_process refers to, as they are now.
Processed == [k \in 1..Len(items_to_process) |-> data[items_to_process[k]]]

StartBatch(items) ==
    /\ items_to_process' = items
    /\ outcome' = [k \in 1..Len(items) |-> "pending"]
    /\ UNCHANGED << processed_count, loaded, lock, next_item, wpc, witem, attempt,
                    calls, waits >>

\* Take with the same record handed out again: the position in
\* items_to_process does not advance.
TakeSameAgain(w) ==
    /\ pc = "batch"
    /\ wpc[w] = "idle"
    /\ \A v \in 1..(w - 1) : wpc[v] # "idle"
    /\ next_item <= Len(items_to_process)
    /\ witem' = [witem EXCEPT ![w] = next_item]
    /\ UNCHANGED next_item
    /\ wpc' = [wpc EXCEPT ![w] = "call"]
    /\ attempt' = [attempt EXCEPT ![w] = 1]
    /\ UNCHANGED outcome
    /\ UNCHANGED << prog, run, pc, args, fs, old, nwrites >>
    /\ UNCHANGED << harvestVars, annotateVars >>
    /\ UNCHANGED << processed_count, loaded, lock, calls, waits >>

\* Take with a call for every record handed out.
TakeAlwaysCalls(w) ==
    /\ pc = "batch"
    /\ wpc[w] = "idle"
    /\ \A v \in 1..(w - 1) : wpc[v] # "idle"
    /\ next_item <= Len(items_to_process)
    /\ witem' = [witem EXCEPT ![w] = next_item]
    /\ next_item' = next_item + 1
    /\ wpc' = [wpc EXCEPT ![w] = "call"]
    /\ attempt' = [attempt EXCEPT ![w] = 1]
    /\ UNCHANGED outcome
    /\ UNCHANGED << prog, run, pc, args, fs, old, nwrites >>
    /\ UNCHANGED << harvestVars, annotateVars >>
    /\ UNCHANGED << processed_count, loaded, lock, calls, waits >>

\* Take with tag_item called as classify_item is: with the overwrite of
\* the command line.
TakeSkipsTagged(w) ==
    /\ pc = "batch"
    /\ wpc[w] = "idle"
    /\ \A v \in 1..(w - 1) : wpc[v] # "idle"
    /\ next_item <= Len(items_to_process)
    /\ witem' = [witem EXCEPT ![w] = next_item]
    /\ next_item' = next_item + 1
    /\ IF /\ ~args.overwrite
          /\ Has(data[items_to_process[next_item]],
                 IF prog = "classify" THEN "ai_for_hw" ELSE "tags")
       THEN /\ wpc' = [wpc EXCEPT ![w] = "finally"]
            /\ outcome' = [outcome EXCEPT ![next_item] = "skipped"]
            /\ UNCHANGED attempt
       ELSE /\ wpc' = [wpc EXCEPT ![w] = "call"]
            /\ attempt' = [attempt EXCEPT ![w] = 1]
            /\ UNCHANGED outcome
    /\ UNCHANGED << prog, run, pc, args, fs, old, nwrites >>
    /\ UNCHANGED << harvestVars, annotateVars >>
    /\ UNCHANGED << processed_count, loaded, lock, calls, waits >>

\* executor.map hands the next record to a free worker (the threads are
\* alike: the model takes the first free one), which enters process_wrapper.  classify_item returns at once for a record that has
\* ai_for_hw unless overwrite is set; tag_item is called with overwrite=True.
Take(w) ==
    /\ pc = "batch"
    /\ wpc[w] = "idle"
    /\ \A v \in 1..(w - 1) : wpc[v] # "idle"
    /\ next_item <= Len(items_to_process)
    /\ witem' = [witem EXCEPT ![w] = next_item]
    /\ next_item' = next_item + 1
    /\ IF /\ prog = "classify"
          /\ ~args.overwrite
          /\ Has(data[items_to_process[next_item]], "ai_for_hw")
       THEN /\ wpc' = [wpc EXCEPT ![w] = "finally"]
            /\ outcome' = [outcome EXCEPT ![next_item] = "skipped"]
            /\ UNCHANGED attempt
       ELSE /\ wpc' = [wpc EXCEPT ![w] = "call"]
            /\ attempt' = [attempt EXCEPT ![w] = 1]
            /\ UNCHANGED outcome
    /\ UNCHANGED << prog, run, pc, args, fs, old, nwrites >>
    /\ UNCHANGED << harvestVars, annotateVars >>
    /\ UNCHANGED << processed_count, loaded, lock, calls, waits >>

\* What process_wrapper's except clause leaves on the record.
OnFailure(item) ==
    IF prog = "tag" THEN SetField(item, "tags", << "Error" >>) ELSE item

\* classify_item on each answer of the service: the label it stores.
LabelFor == [content \in ClassifyResponses |-> label(classify_ans(content))]

\* tag_item on each answer of the service: the tags it stores.
TagsFor == [content \in TagResponses |-> found_tags(tag_ans(content))]

\* What a successful answer leaves on the record.
OnAnswer(item, content) ==
    IF prog = "tag"
    THEN SetField(item, "tags", TagsFor[content])
    ELSE SetField(item, "ai_for_hw", LabelFor[content])

\* Fail with the exception leaving process_wrapper and ending main.
FailAborts(w) ==
    /\ data' = [data EXCEPT ![ItemOf(w)] = OnFailure(@)]
    /\ outcome' = [outcome EXCEPT ![witem[w]] = "failed"]
    /\ wpc' = [wpc EXCEPT ![w] = "finally"]
    /\ pc' = "crash"

\* The exception leaves classify_item / tag_item and is caught by
\* process_wrapper, which goes on to its finally clause.
Fail(w) ==
    /\ data' = [data EXCEPT ![ItemOf(w)] = OnFailure(@)]
    /\ outcome' = [outcome EXCEPT ![witem[w]] = "failed"]
    /\ wpc' = [wpc EXCEPT ![w] = "finally"]
    /\ UNCHANGED pc

\* query_model: the call returns an answer, which is parsed and stored.
CallOk(w, content) ==
    /\ pc = "batch"
    /\ wpc[w] = "call"
    /\ calls' = [calls EXCEPT ![w] = @ + 1]
    /\ data' = [data EXCEPT ![ItemOf(w)] = OnAnswer(@, content)]
    /\ outcome' = [outcome EXCEPT ![witem[w]] = "ok"]
    /\ wpc' = [wpc EXCEPT ![w] = "finally"]
    /\ UNCHANGED << prog, run, pc, args, fs, old, nwrites >>
    /\ UNCHANGED << harvestVars, labeled_data, diff_mode, items_to_process,
                    final_data >>
    /\ UNCHANGED << processed_count, loaded, lock, next_item, witem, attempt, waits >>

\* CallError with one attempt more before the error is raised again.
CallErrorRetriesOn(w) ==
    /\ pc = "batch"
    /\ wpc[w] = "call"
    /\ calls' = [calls EXCEPT ![w] = @ + 1]
    /\ IF attempt[w] = MAX_RETRY + 1
       THEN /\ Fail(w)
            /\ UNCHANGED << waits, attempt >>
       ELSE /\ waits' = [waits EXCEPT ![w] =
                             Append(@, RETRY_BACKOFF_SEC * attempt[w])]
            /\ attempt' = [attempt EXCEPT ![w] = @ + 1]
            /\ UNCHANGED << pc, wpc, data, outcome >>
    /\ UNCHANGED << prog, run, args, fs, old, nwrites >>
    /\ UNCHANGED << harvestVars, labeled_data, diff_mode, items_to_process,
                    final_data >>
    /\ UNCHANGED << processed_count, loaded, lock, next_item, witem >>

\* query_model: the call raises OpenAIError.  On the last attempt it is
\* raised again; before that the worker sleeps RETRY_BACKOFF_SEC * attempt
\* and the loop takes the next attempt.
CallError(w) ==
    /\ pc = "batch"
    /\ wpc[w] = "call"
    /\ calls' = [calls EXCEPT ![w] = @ + 1]
    /\ IF attempt[w] = MAX_RETRY
       THEN /\ Fail(w)
            /\ UNCHANGED << waits, attempt >>
       ELSE /\ waits' = [waits EXCEPT ![w] =
                             Append(@, RETRY_BACKOFF_SEC * attempt[w])]
            /\ attempt' = [attempt EXCEPT ![w] = @ + 1]
            /\ UNCHANGED << pc, wpc, data, outcome >>
    /\ UNCHANGED << prog, run, args, fs, old, nwrites >>
    /\ UNCHANGED << harvestVars, labeled_data, diff_mode, items_to_process,
                    final_data >>
    /\ UNCHANGED << processed_count, loaded, lock, next_item, witem >>

\* query_model: the call raises an exception that is no OpenAIError (a
\* response without content, say): nothing retries it.
CallCrash(w) ==
    /\ pc = "batch"
    /\ wpc[w] = "call"
    /\ calls' = [calls EXCEPT ![w] = @ + 1]
    /\ Fail(w)
    /\ UNCHANGED << prog, run, args, fs, old, nwrites >>
    /\ UNCHANGED << harvestVars, labeled_data, diff_mode, items_to_process,
                    final_data >>
    /\ UNCHANGED << processed_count, loaded, lock, next_item, witem, attempt, waits >>

\* Acquire without the lock: the worker reads the counter whoever holds it.
AcquireUnlocked(w) ==
    /\ pc = "batch"
    /\ wpc[w] = "finally"
    /\ lock' = w
    /\ loaded' = [loaded EXCEPT ![w] = processed_count]
    /\ wpc' = [wpc EXCEPT ![w] = "locked"]
    /\ UNCHANGED << prog, run, pc, args, fs, old, nwrites >>
    /\ UNCHANGED << harvestVars, annotateVars >>
    /\ UNCHANGED << processed_count, next_item, witem, attempt, calls, waits,
                    outcome >>

\* process_wrapper, finally: with lock, and the read of processed_count
\* that "processed_count += 1" begins with (nothing else can write the
\* counter between the two while the lock is held).
Acquire(w) ==
    /\ pc = "batch"
    /\ wpc[w] = "finally"
    /\ lock = 0
    /\ lock' = w
    /\ loaded' = [loaded EXCEPT ![w] = processed_count]
    /\ wpc' = [wpc EXCEPT ![w] = "locked"]
    /\ UNCHANGED << prog, run, pc, args, fs, old, nwrites >>
    /\ UNCHANGED << harvestVars, annotateVars >>
    /\ UNCHANGED << processed_count, next_item, witem, attempt, calls, waits,
                    outcome >>

\* process_wrapper, finally: "processed_count += 1" stores the value read
\* plus one, the lock is released and the worker is free for the next record.
Count(w) ==
    /\ pc = "batch"
    /\ wpc[w] = "locked"
    /\ processed_count' = loaded[w] + 1
    /\ loaded' = [loaded EXCEPT ![w] = 0]
    /\ lock' = 0
    /\ wpc' = [wpc EXCEPT ![w] = "idle"]
    /\ witem' = [witem EXCEPT ![w] = 0]
    /\ attempt' = [attempt EXCEPT ![w] = 0]
    /\ calls' = [calls EXCEPT ![w] = 0]
    /\ waits' = [waits EXCEPT ![w] = <<>>]
    /\ UNCHANGED << prog, run, pc, args, fs, old, nwrites >>
    /\ UNCHANGED << harvestVars, annotateVars >>
    /\ UNCHANGED << next_item, outcome >>

\* BatchOver with main not waiting for the workers: every record was handed
\* out.
BatchOverHandedOut ==
    /\ pc = "batch"
    /\ next_item > Len(items_to_process)

\* The with-block of the executor is left: every record was handed out and
\* every worker is back.
BatchOver ==
    /\ pc = "batch"
    /\ next_item > Len(items_to_process)
    /\ \A w \in Workers : wpc[w] = "idle"

-----------------------------------------------------------------------------
(* The classifier: classify_papers.py *)

\* item.get("ai_for_hw")
Positive(item) == Has(item, "ai_for_hw") /\ item.ai_for_hw

\* classify_item: query_model returns content's answer; the label is stored.
CAnswer(w, content) == prog = "classify" /\ CallOk(w, content)

\* main up to the batch: load the input, select, and write the list of
\* selected records for inspection.
CStart ==
    /\ prog = "classify"
    /\ pc = "start"
    /\ IF ~isfile("papers")
       THEN /\ pc' = "exit1"
            /\ UNCHANGED << fs, annotateVars, batchVars >>
       ELSE IF \/ fs["papers"].st = "partial"
               \/ args.diff_against /\ fs["labeled"].st = "partial"
       THEN \* json.load raises
            /\ pc' = "crash"
            /\ UNCHANGED << fs, annotateVars, batchVars >>
       ELSE LET input == fs["papers"].data
                diff == args.diff_against /\ isfile("labeled")
                labeled == IF diff THEN fs["labeled"].data ELSE <<>>
                labeled_urls == TruthyUrls(labeled)
                Chosen(k) ==
                    IF diff
                    THEN input[k].url \notin labeled_urls
                    ELSE args.overwrite \/ ~Has(input[k], "ai_for_hw")
                items == Ascending({k \in 1..Len(input) : Chosen(k)})
            IN  /\ data' = input
                /\ labeled_data' = labeled
                /\ diff_mode' = diff
                /\ IF items = <<>>
                   THEN /\ pc' = "save"
                        /\ final_data' = IF diff THEN labeled ELSE input
                        /\ UNCHANGED << fs, items_to_process, batchVars >>
                   ELSE /\ pc' = "batch"
                        /\ fs' = [fs EXCEPT !["unlabeled"] =
                                     File([k \in 1..Len(items) |-> input[items[k]]])]
                        /\ StartBatch(items)
                        /\ UNCHANGED final_data
    /\ UNCHANGED << prog, run, args, old, nwrites >>
    /\ UNCHANGED harvestVars

\* CExtend with final_data being data in the diff branch as well.
CExtendFromInput ==
    /\ prog = "classify"
    /\ BatchOver
    /\ final_data' = data \o Processed
    /\ pc' = "save"
    /\ UNCHANGED << prog, run, args, fs, old, nwrites >>
    /\ UNCHANGED << harvestVars, data, labeled_data, diff_mode,
                    items_to_process >>
    /\ UNCHANGED batchVars

\* final_data.extend(items_to_process), final_data being labeled_data in
\* the diff branch and data itself otherwise.
CExtend ==
    /\ prog = "classify"
    /\ BatchOver
    /\ final_data' = (IF diff_mode THEN labeled_data ELSE data) \o Processed
    /\ pc' = "save"
    /\ UNCHANGED << prog, run, args, fs, old, nwrites >>
    /\ UNCHANGED << harvestVars, data, labeled_data, diff_mode,
                    items_to_process >>
    /\ UNCHANGED batchVars

\* The collection and the final path of the safe_json_write main is in.
Primary == pc \in {"save", "save_dump", "save_rename"}
Secondary == pc \in {"filter", "filter_dump", "filter_rename"}
Target == IF Primary THEN "labeled" ELSE "filtered"
Temp == IF Primary THEN "labeled.tmp" ELSE "filtered.tmp"
filtered_data == SelectSeq(final_data, Positive)
Written == IF Primary THEN final_data ELSE filtered_data

\* Where main goes when safe_json_write has returned.
AfterWrite ==
    IF Primary /\ Len(filtered_data) > 0 THEN "filter" ELSE "done"

\* AfterRaise with main going on to the filtered view after a failure of the
\* primary write.
AfterRaiseGoesOn == IF Primary THEN "filter" ELSE "done"

\* Where main goes when safe_json_write has raised.
AfterRaise == IF Primary THEN "exit1" ELSE "done"

\* SafeOpen opening the final path itself.
SafeOpenInPlace ==
    /\ prog = "classify"
    /\ pc \in {"save", "filter"}
    /\ fs' = [fs EXCEPT ![Target] = Partial]
    /\ pc' = IF Primary THEN "save_dump" ELSE "filter_dump"
    /\ UNCHANGED << prog, run, args, old, nwrites >>
    /\ UNCHANGED << harvestVars, annotateVars, batchVars >>

\* safe_json_write: open(temp_path, "w")
SafeOpen ==
    /\ prog = "classify"
    /\ pc \in {"save", "filter"}
    /\ fs' = [fs EXCEPT ![Temp] = Partial]
    /\ pc' = IF Primary THEN "save_dump" ELSE "filter_dump"
    /\ UNCHANGED << prog, run, args, old, nwrites >>
    /\ UNCHANGED << harvestVars, annotateVars, batchVars >>

\* safe_json_write: json.dump and the close of the temporary file
SafeDump ==
    /\ prog = "classify"
    /\ pc \in {"save_dump", "filter_dump"}
    /\ fs' = [fs EXCEPT ![Temp] = File(Written)]
    /\ pc' = IF Primary THEN "save_rename" ELSE "filter_rename"
    /\ UNCHANGED << prog, run, args, old, nwrites >>
    /\ UNCHANGED << harvestVars, annotateVars, batchVars >>

\* safe_json_write: os.rename(temp_path, path)
SafeRename ==
    /\ prog = "classify"
    /\ pc \in {"save_rename", "filter_rename"}
    /\ fs' = [fs EXCEPT ![Target] = fs[Temp], ![Temp] = Absent]
    /\ nwrites' = nwrites + 1
    /\ pc' = AfterWrite
    /\ UNCHANGED << prog, run, args, old >>
    /\ UNCHANGED << harvestVars, annotateVars, batchVars >>

\* safe_json_write: open, json.dump or os.rename raises; the temporary file
\* is removed if it exists and the exception is raised again.
SafeRaise ==
    /\ prog = "classify"
    /\ Primary \/ Secondary
    /\ fs' = [fs EXCEPT ![Temp] = Absent]
    /\ pc' = AfterRaise
    /\ UNCHANGED << prog, run, args, old, nwrites >>
    /\ UNCHANGED << harvestVars, annotateVars, batchVars >>

-----------------------------------------------------------------------------
(* The tagger: tag_papers.py *)

\* tag_item: query_model returns content's answer; the tags are stored.
TAnswer(w, content) == prog = "tag" /\ CallOk(w, content)

\* main up to the batch: load the input and the existing output, select.
TStart ==
    /\ prog = "tag"
    /\ pc = "start"
    /\ IF ~isfile("filtered")
       THEN /\ pc' = "exit1"
            /\ UNCHANGED << annotateVars, batchVars >>
       ELSE IF fs["filtered"].st = "partial"
       THEN /\ pc' = "crash"
            /\ UNCHANGED << annotateVars, batchVars >>
       ELSE LET all_papers == fs["filtered"].data
                \* an unreadable output file is reported and read as empty
                existing_papers ==
                    IF ~args.overwrite /\ fs["tagged"].st = "ok"
                    THEN fs["tagged"].data
                    ELSE <<>>
                existing_urls == TruthyUrls(existing_papers)
                Chosen(k) ==
                    args.overwrite \/ all_papers[k].url \notin existing_urls
                items == Ascending({k \in 1..Len(all_papers) : Chosen(k)})
            IN  /\ data' = all_papers
                /\ labeled_data' = existing_papers
                /\ UNCHANGED diff_mode
                /\ IF items = <<>>
                   THEN /\ pc' = "save"
                        /\ final_data' = existing_papers
                        /\ UNCHANGED << items_to_process, batchVars >>
                   ELSE /\ pc' = "batch"
                        /\ StartBatch(items)
                        /\ UNCHANGED final_data
    /\ UNCHANGED << prog, run, args, fs, old, nwrites >>
    /\ UNCHANGED harvestVars

\* final_data = existing_papers + items_to_process
TCombine ==
    /\ prog = "tag"
    /\ BatchOver
    /\ final_data' = labeled_data \o Processed
    /\ pc' = "save"
    /\ UNCHANGED << prog, run, args, fs, old, nwrites >>
    /\ UNCHANGED << harvestVars, data, labeled_data, diff_mode,
                    items_to_process >>
    /\ UNCHANGED batchVars

\* final_data.sort(...), then open(args.output, "w") truncates the output.
TOpen ==
    /\ prog = "tag"
    /\ pc = "save"
    /\ final_data' = SortDesc(final_data)
    /\ fs' = [fs EXCEPT !["tagged"] = Partial]
    /\ nwrites' = nwrites + 1
    /\ pc' = "dump"
    /\ UNCHANGED << prog, run, args, old >>
    /\ UNCHANGED << harvestVars, data, labeled_data, diff_mode,
                    items_to_process >>
    /\ UNCHANGED batchVars

\* json.dump writes the collection and the file is closed.
TDump ==
    /\ prog = "tag"
    /\ pc = "dump"
    /\ fs' = [fs EXCEPT !["tagged"] = File(final_data)]
    /\ pc' = "done"
    /\ UNCHANGED << prog, run, args, old, nwrites >>
    /\ UNCHANGED << harvestVars, annotateVars, batchVars >>

-----------------------------------------------------------------------------
(* The environment: interruption, and running the script again *)

\* The process is terminated from outside: its memory is gone (the model
\* keeps final_data, the collection a write in progress was given) and the
\* files stay as they are.
Interrupt ==
    /\ pc \notin Terminal
    /\ pc' = "killed"
    /\ MemoryReset
    /\ UNCHANGED << prog, run, args, fs, old, nwrites, final_data >>

\* What the stage before may have made of the input at path p since the
\* last run: nothing, or one more record of S in front of the others.
Grown(p, S) ==
    {fs[p]} \cup
        IF fs[p].st = "ok" /\ Len(fs[p].data) < MaxInput
        THEN {File(<< r >> \o fs[p].data) :
                  r \in {x \in S : x.url \notin UrlsOf(fs[p].data)}}
        ELSE {}

\* The input path of the script.
InputPath == IF prog = "classify" THEN "papers" ELSE "filtered"

\* The script has run to its end and is started again, on the files the
\* earlier runs left and the input as it is by then.
Rerun ==
    /\ pc = "done"
    /\ run < MaxRuns
    /\ run' = run + 1
    /\ pc' = "start"
    /\ args' \in ArgsOf(prog)
    /\ IF prog = "harvest"
       THEN fs' = fs
       ELSE \E f \in Grown(InputPath,
                           IF prog = "classify" THEN ClassifyRecords ELSE TagRecords) :
                fs' = [fs EXCEPT ![InputPath] = f]
    /\ old' = fs'
    /\ nwrites' = 0
    /\ MemoryReset
    /\ final_data' = <<>>
    /\ UNCHANGED prog

-----------------------------------------------------------------------------

Init == InitHarvest \/ InitClassify \/ InitTag

Harvest ==
    \/ \E rec \in HarvestRecords : HYield(rec)
    \/ HFinished
    \/ HEmptyPage
    \/ HError
    \/ HMerge
    \/ HOpen
    \/ HDump

Batch ==
    \/ \E w \in Workers : Take(w)
    \/ \E w \in Workers : CallError(w)
    \/ \E w \in Workers : CallCrash(w)
    \/ \E w \in Workers : Acquire(w)
    \/ \E w \in Workers : Count(w)

Classify ==
    \/ CStart
    \/ \E w \in Workers : \E content \in ClassifyResponses : CAnswer(w, content)
    \/ CExtend
    \/ SafeOpen
    \/ SafeDump
    \/ SafeRename
    \/ SafeRaise

Tag ==
    \/ TStart
    \/ \E w \in Workers : \E content \in TagResponses : TAnswer(w, content)
    \/ TCombine
    \/ TOpen
    \/ TDump

Next ==
    \/ Harvest
    \/ Batch
    \/ Classify
    \/ Tag
    \/ Interrupt
    \/ Rerun

NextHarvest ==
    \/ Harvest
    \/ Interrupt
    \/ Rerun

NextClassify ==
    \/ Batch
    \/ Classify
    \/ Interrupt
    \/ Rerun

NextTag ==
    \/ Batch
    \/ Tag
    \/ Interrupt
    \/ Rerun

\* Any of the three scripts, run up to MaxRuns times.
Spec == Init /\ [][Next]_vars

\* The harvester alone.
SpecHarvest == InitHarvest /\ [][NextHarvest]_vars

\* The classifier alone.
SpecClassify == InitClassify /\ [][NextClassify]_vars

\* The tagger alone.
SpecTag == InitTag /\ [][NextTag]_vars

\* A step of the batch: of a worker thread, an external call returning or
\* failing included, or of main leaving the with-block of the executor.
BatchStep ==
    \/ Batch
    \/ \E w \in Workers : \E content \in ClassifyResponses : CAnswer(w, content)
    \/ \E w \in Workers : \E content \in TagResponses : TAnswer(w, content)
    \/ CExtend
    \/ TCombine

NextAnnotate ==
    \/ Batch
    \/ Classify
    \/ Tag
    \/ Interrupt

\* One run of the classifier or of the tagger, with threads that are
\* scheduled and external calls that return or fail: a step of the batch
\* that stays possible is taken in the end.
SpecAnnotateLive ==
    /\ (InitClassify \/ InitTag)
    /\ [][NextAnnotate]_vars
    /\ WF_vars(BatchStep)

-----------------------------------------------------------------------------
(* Properties of the harvester *)

\* The collection at path p when the current run started.
OldData(p) == IF old[p].st = "ok" THEN old[p].data ELSE <<>>

YieldedUrls == {yielded[k].item.url : k \in 1..Len(yielded)}

\* The first record yielded with url u, over the queries in their order.
FirstYielded(u) ==
    LET k == CHOOSE k \in 1..Len(yielded) :
                 /\ yielded[k].item.url = u
                 /\ \A j \in 1..(k - 1) : yielded[j].item.url # u
    IN  yielded[k].item

\* The position of record r in collection s.
IndexIn(s, r) == CHOOSE k \in 1..Len(s) : s[k] = r

\* C5: in incremental mode with k > 0 harvested records whose identifier is
\* not in the persisted collection, the written collection is those k
\* records, in the order of the sorted harvest, followed by the persisted
\* collection as it was.
C5_NewRecordsFirst ==
    LET persisted == OldData("papers")
        written == fs["papers"].data
        fresh == YieldedUrls \ UrlsOf(persisted)
        k == Cardinality(fresh)
    IN  (prog = "harvest" /\ args.mode = 1 /\ pc = "done" /\ k > 0) =>
            /\ fs["papers"].st = "ok"
            /\ Len(written) = k + Len(persisted)
            /\ SubSeq(written, k + 1, Len(written)) = persisted
            /\ {written[j].url : j \in 1..k} = fresh
            /\ \A j \in 1..k : written[j] \in Range(new_items)
            /\ \A i, j \in 1..k :
                   i < j => IndexIn(new_items, written[i]) < IndexIn(new_items, written[j])

\* C5 happens: an incremental run has put a new record in front of a
\* persisted collection that was not empty.
C5_Witness ==
    /\ prog = "harvest" /\ args.mode = 1 /\ pc = "done"
    /\ Len(OldData("papers")) > 0
    /\ add_count > 0
    /\ Len(fs["papers"].data) = add_count + Len(OldData("papers"))

\* C6: an incremental run that harvested no identifier absent from the
\* persisted collection ends without any write, the file being as it was.
C6_IncrementalNoOp ==
    (/\ prog = "harvest" /\ args.mode = 1
     /\ pc \in {"save", "dump", "done"}
     /\ YieldedUrls \subseteq UrlsOf(OldData("papers")))
        => (pc = "done" /\ nwrites = 0 /\ fs = old)

\* C6 happens: an incremental run harvested records, all of them persisted
\* already, and has ended.
C6_Witness ==
    /\ prog = "harvest" /\ args.mode = 1 /\ pc = "done"
    /\ Len(yielded) > 0
    /\ YieldedUrls \subseteq UrlsOf(OldData("papers"))
    /\ nwrites = 0

\* C7: the accumulated collection holds one record per identifier yielded,
\* and it is the first record yielded with that identifier; a full rebuild
\* persists exactly these records.
C7_FirstOccurrenceWins ==
    prog = "harvest" =>
        /\ Len(new_items) = Cardinality(YieldedUrls)
        /\ \A u \in YieldedUrls : FirstYielded(u) \in Range(new_items)
        /\ (args.mode = 0 /\ pc = "done") =>
               /\ Len(fs["papers"].data) = Cardinality(YieldedUrls)
               /\ \A u \in YieldedUrls : FirstYielded(u) \in Range(fs["papers"].data)

\* C7 happens: a later query yielded an identifier again, with other
\* content, and the full rebuild has been saved.
C7_Witness ==
    /\ prog = "harvest" /\ args.mode = 0 /\ pc = "done"
    /\ Len(new_items) = 2
    /\ \E j, k \in 1..Len(yielded) :
           /\ yielded[j].query < yielded[k].query
           /\ yielded[j].item.url = yielded[k].item.url
           /\ yielded[j].item # yielded[k].item

\* C10: however a query's stream ends, the records it yielded stay in the
\* accumulated collection, the next query is run, and main leaves the loop
\* only when every query has been run.
C10_QueryFailureIsolated ==
    prog = "harvest" =>
        /\ YieldedUrls \subseteq UrlsOf(new_items)
        /\ pc = "start" => qi = Len(qend) + 1
        /\ pc \in {"save", "dump", "done", "crash"} => Len(qend) = NumQueries

\* C10 happens: the first query failed after yielding a record, the second
\* yielded another, and both are in the saved collection.
C10_Witness ==
    /\ prog = "harvest" /\ pc = "done" /\ fs["papers"].st = "ok"
    /\ qend[1] = "error"
    /\ \E j, k \in 1..Len(yielded) :
           /\ yielded[j].query = 1 /\ yielded[k].query = 2
           /\ yielded[j].item.url # yielded[k].item.url
           /\ {yielded[j].item.url, yielded[k].item.url}
                  \subseteq UrlsOf(fs["papers"].data)

-----------------------------------------------------------------------------
(* Properties of every stage *)

\* The final paths of the persisted collections.
PersistedPaths == {"papers", "labeled", "filtered", "tagged"}

\* C1: when the collections a run started from have pairwise distinct
\* identifiers, no collection at a final path holds two records with the
\* same identifier.
C1_IdentifiersUnique ==
    (\A p \in Paths : DistinctUrls(OldData(p)))
        => \A p \in PersistedPaths :
               fs[p].st = "ok" => DistinctUrls(fs[p].data)

\* C2: a run interrupted at any point leaves each final path holding either
\* what it held when the run started or a complete collection.
C2_CrashSafe ==
    pc = "killed" =>
        \A p \in PersistedPaths : fs[p] = old[p] \/ fs[p].st = "ok"

\* C8: when the collections a run started from are in non-increasing order
\* of published, so is every collection at a final path.
C8_OrderInvariant ==
    (\A p \in Paths : Descending(OldData(p)))
        => \A p \in PersistedPaths :
               fs[p].st = "ok" => Descending(fs[p].data)

-----------------------------------------------------------------------------
(* Properties of the annotation batch *)

Annotating == prog \in {"classify", "tag"}

Resolved == {"ok", "failed", "skipped"}

\* C3: a permanent failure of one record leaves main in the batch, where a
\* worker can always take a step until every record is handed out and every
\* worker is back; once main has left the batch every selected record is
\* resolved and counted, and the records other than the failed ones carry
\* what their own call gave.
C3_FailureContained ==
    Annotating =>
        /\ (\E k \in 1..Len(outcome) : outcome[k] = "pending")
               => pc \in {"batch", "killed"}
        /\ (pc = "batch" /\ ~BatchOver) =>
               \E w \in Workers :
                   \/ wpc[w] = "idle" /\ next_item <= Len(items_to_process)
                   \/ wpc[w] = "call"
                   \/ wpc[w] = "finally" /\ lock = 0
                   \/ wpc[w] = "locked"
        /\ pc \notin {"start", "batch", "killed"} =>
               /\ Len(outcome) = Len(items_to_process)
               /\ processed_count = Len(items_to_process)
               /\ \A k \in 1..Len(outcome) :
                      /\ outcome[k] \in Resolved
                      /\ outcome[k] = "ok" =>
                             IF prog = "tag"
                             THEN Processed[k].tags # << "Error" >>
                             ELSE Has(Processed[k], "ai_for_hw")

\* C3 happens: a batch of two records, one failed for good and the other
\* answered, has been completed and saved.
C3_Witness ==
    /\ Annotating /\ pc = "done"
    /\ Len(outcome) = 2
    /\ \E j, k \in 1..2 : outcome[j] = "failed" /\ outcome[k] = "ok"

-----------------------------------------------------------------------------
(* Properties of the tagger *)

InVocabulary(tags) ==
    /\ Len(tags) > 0
    /\ \A n \in 1..Len(tags) : \E j \in 1..Len(VALID_TAGS) : tags[n] = VALID_TAGS[j]

\* C9 as the specification states it: in the collection the tagger writes
\* every tags list is non-empty and within VALID_TAGS, also for a record
\* whose call failed for good.
C9_VocabularyClosure ==
    (prog = "tag" /\ fs["tagged"].st = "ok") =>
        \A k \in 1..Len(fs["tagged"].data) :
            Has(fs["tagged"].data[k], "tags")
                => InVocabulary(fs["tagged"].data[k].tags)

\* C9, amended: in the collection the tagger writes every tags list is
\* either non-empty and within VALID_TAGS, or the list ["Error"], which no
\* answer produces and which marks the records whose call failed for good.
C9_VocabularyOrError ==
    prog = "tag" =>
        /\ fs["tagged"].st = "ok" =>
               \A k \in 1..Len(fs["tagged"].data) :
                   LET r == fs["tagged"].data[k]
                   IN  Has(r, "tags")
                           => (InVocabulary(r.tags) \/ r.tags = << "Error" >>)
        /\ pc \in {"save", "dump", "done"} =>
               \A k \in 1..Len(outcome) :
                   /\ outcome[k] = "ok" => InVocabulary(Processed[k].tags)
                   /\ outcome[k] = "failed" => Processed[k].tags = << "Error" >>

\* C9 happens: the tagger has written a record whose call failed next to a
\* record with tags of the vocabulary.
C9_Witness ==
    /\ prog = "tag" /\ pc = "done" /\ fs["tagged"].st = "ok"
    /\ \E j, k \in 1..Len(fs["tagged"].data) :
           /\ fs["tagged"].data[j].tags = << "Error" >>
           /\ InVocabulary(fs["tagged"].data[k].tags)

-----------------------------------------------------------------------------
(* Properties of failure marking and selection *)

\* C11: when the batch is over, every record whose classification call
\* failed for good has no ai_for_hw field, and every record whose tagging
\* call failed for good has tags equal to ["Error"].
C11_FailureMarking ==
    (Annotating /\ pc \in {"save", "save_dump", "save_rename", "filter",
                           "filter_dump", "filter_rename", "dump", "done"}) =>
        \A k \in 1..Len(outcome) :
            outcome[k] = "failed" =>
                IF prog = "tag"
                THEN Processed[k].tags = << "Error" >>
                ELSE ~Has(Processed[k], "ai_for_hw")

\* The classifier's input and baseline as the run found them.
Input == old["papers"].data
Baseline == old["labeled"].data
WithBaseline == args.diff_against /\ old["labeled"].st # "absent"

\* The positions of the input the run selected.
SelectedPositions == Range(items_to_process)

TInput == old["filtered"].data
Existing ==
    IF ~args.overwrite /\ old["tagged"].st = "ok"
    THEN old["tagged"].data
    ELSE <<>>

\* The record at position k of the tagger's input has tags: in the input,
\* or in the output of an earlier run.
Tagged(k) ==
    \/ Has(TInput[k], "tags")
    \/ \E e \in 1..Len(old["tagged"].data) :
           /\ old["tagged"].data[e].url = TInput[k].url
           /\ Has(old["tagged"].data[e], "tags")

-----------------------------------------------------------------------------
(* Properties of missing files and of the classifier's writes *)

NoCall == outcome = <<>> /\ \A w \in Workers : calls[w] = 0

\* C14 as the specification states it: a classifier run that names a
\* baseline where no file is, and a classifier or tagger run whose input
\* file is missing, ends in failure without a call and without a write.
C14_MissingFilesFatal ==
    (/\ Annotating
     /\ pc # "start"
     /\ \/ old[InputPath].st = "absent"
        \/ prog = "classify" /\ args.diff_against /\ old["labeled"].st = "absent")
        => (pc \in {"exit1", "killed"} /\ fs = old /\ NoCall)

\* C14, amended: a classifier or tagger run whose input file is missing
\* ends with exit status 1 without a call and without a write; a
\* classifier run that names a baseline where no file is goes on as a run
\* without a baseline: it selects by force and the ai_for_hw field, never
\* ends for the missing baseline, and writes its output.
C14_MissingInputFatal ==
    (Annotating /\ pc # "start") =>
        /\ old[InputPath].st = "absent" =>
               (pc \in {"exit1", "killed"} /\ fs = old /\ nwrites = 0 /\ NoCall)
        /\ (/\ prog = "classify"
            /\ args.diff_against
            /\ old["labeled"].st = "absent"
            /\ old["papers"].st = "ok"
            /\ pc # "killed") =>
               /\ ~diff_mode
               /\ \A k \in 1..Len(Input) :
                      k \in SelectedPositions <=>
                          (args.overwrite \/ ~Has(Input[k], "ai_for_hw"))
               /\ pc = "exit1" => fs["labeled.tmp"].st = "absent" /\ nwrites = 0
               /\ pc = "done" => fs["labeled"] = File(final_data)

\* C14 happens: a run that named a baseline where no file was has made a
\* call and written its output.
C14_Witness ==
    /\ prog = "classify" /\ pc = "done"
    /\ args.diff_against /\ old["labeled"].st = "absent"
    /\ \E j \in 1..Len(outcome) : outcome[j] = "ok"
    /\ fs["labeled"].st = "ok"

\* The records of s whose ai_for_hw is true, in their order.
PositiveOf(s) == SelectSeq(s, Positive)

\* The run has ended and each safe_json_write it called has returned.
RunWroteAll ==
    /\ pc = "done"
    /\ nwrites = IF Len(filtered_data) > 0 THEN 2 ELSE 1

\* C15: when the filtered artifact matched the primary collection as a run
\* of the classifier started (no file counting as the empty collection) and
\* no write of the run failed, the filtered artifact on disk is the
\* subsequence of the records with ai_for_hw true of the primary collection
\* the run wrote, the case of no such record included.
C15_FilteredMatchesPrimary ==
    (/\ prog = "classify"
     /\ RunWroteAll
     /\ old["filtered"].data = PositiveOf(old["labeled"].data))
        => fs["filtered"].data = PositiveOf(fs["labeled"].data)

\* C16: a classifier run whose primary write failed has ended with exit
\* status 1 and has written neither output; the filtered view is written
\* only after the primary output holds the new collection; and a run that
\* has ended with success has the new collection in the primary output,
\* also when the write of the filtered view failed.
C16_PrimaryFatalSecondaryNot ==
    prog = "classify" =>
        /\ (pc = "exit1" /\ old["papers"].st # "absent") =>
               /\ nwrites = 0
               /\ fs["labeled"] = old["labeled"]
               /\ fs["filtered"] = old["filtered"]
               /\ fs["filtered.tmp"] = old["filtered.tmp"]
        /\ Secondary => (nwrites = 1 /\ fs["labeled"] = File(final_data))
        /\ pc = "done" =>
               /\ nwrites >= 1
               /\ fs["labeled"] = File(final_data)
               /\ (nwrites = 1 /\ Len(filtered_data) > 0) =>
                      fs["filtered"] = old["filtered"]

\* C16 happens: the run has ended with success, the primary output is a
\* new collection with a true record, and the write of the filtered view
\* failed.
C16_Witness ==
    /\ prog = "classify" /\ pc = "done"
    /\ Len(filtered_data) > 0
    /\ nwrites = 1
    /\ fs["labeled"] = File(final_data)
    /\ fs["labeled"] # old["labeled"]
    /\ fs["filtered"] = old["filtered"]

\* C17: while safe_json_write is at work, up to the rename, the file at the
\* final path is what it was before the call, and an interruption leaves it
\* so; when safe_json_write has raised, the temporary file is gone and main
\* is where the exception takes it, not where a return would.
C17_SafeWriteFailure ==
    prog = "classify" =>
        /\ Primary => (nwrites = 0 /\ fs["labeled"] = old["labeled"])
        /\ Secondary => (nwrites = 1 /\ fs["filtered"] = old["filtered"])
        /\ pc = "killed" =>
               /\ nwrites = 0 => fs["labeled"] = old["labeled"]
               /\ nwrites <= 1 => fs["filtered"] = old["filtered"]
        /\ (pc = "exit1" /\ old["papers"].st # "absent") =>
               /\ fs["labeled"] = old["labeled"]
               /\ fs["labeled.tmp"].st = "absent"
        /\ (pc = "done" /\ nwrites = 1 /\ Len(filtered_data) > 0) =>
               /\ fs["filtered"] = old["filtered"]
               /\ fs["filtered.tmp"].st = "absent"

\* C17 happens: the run was interrupted when the temporary file held the
\* whole new collection and the rename had not been made; the final path
\* holds what it held before.
C17_Witness ==
    /\ prog = "classify" /\ pc = "killed"
    /\ Len(final_data) > 0
    /\ fs["labeled.tmp"] = File(final_data)
    /\ fs["labeled"] = old["labeled"]
    /\ fs["labeled"] # File(final_data)

-----------------------------------------------------------------------------
(* Properties of the incremental harvest and of the parsing of answers *)

\* The records of s that were in the persisted collection when the run
\* started, in the order s has them.
KeptOf(s) ==
    LET WasPersisted(r) == r \in Range(OldData("papers"))
    IN  SelectSeq(s, WasPersisted)

\* C18: before its write and when it has ended, an incremental run of the
\* harvester has on disk every record the persisted collection held when
\* the run started, with the same fields and in the same relative order.
\* (The time of the write itself and an interrupted run are the matter of
\* C2.)
C18_PersistedKept ==
    (prog = "harvest" /\ args.mode = 1 /\ pc \in {"start", "save", "done"}) =>
        /\ fs["papers"].st = old["papers"].st \/ old["papers"].st = "absent"
        /\ KeptOf(fs["papers"].data) = OldData("papers")

\* C18 happens: an incremental run has ended that added a record and
\* harvested, with another date, a record of the persisted collection; the
\* persisted records are as they were.
C18_Witness ==
    /\ prog = "harvest" /\ args.mode = 1 /\ pc = "done"
    /\ Len(fs["papers"].data) > Len(OldData("papers"))
    /\ \E k \in 1..Len(yielded) :
           /\ yielded[k].item.url \in UrlsOf(OldData("papers"))
           /\ yielded[k].item \notin Range(OldData("papers"))
    /\ KeptOf(fs["papers"].data) = OldData("papers")

\* The fragments of an answer as tag_item compares them, and the entries of
\* the vocabulary (by position) that are within a fragment.
FragmentsOf(content) ==
    LET parts == split(tag_ans(content))
    IN  [k \in 1..Len(parts) |-> lower(strip(parts[k]))]
Within(j, fragment) == contains(fragment, lower(TagText[j]))
MatchedIn(frags) ==
    {j \in 1..Len(VALID_TAGS) : \E k \in 1..Len(frags) : Within(j, frags[k])}
FirstFragment(j, frags) ==
    CHOOSE k \in 1..Len(frags) :
        Within(j, frags[k]) /\ \A i \in 1..(k - 1) : ~Within(j, frags[i])
VocabularyIndex(tag) == CHOOSE j \in 1..Len(VALID_TAGS) : VALID_TAGS[j] = tag

\* tags holds each matched entry of the vocabulary once and nothing else,
\* or is ["Other"] when nothing matched.
ExactlyTheMatched(tags, frags) ==
    IF MatchedIn(frags) = {}
    THEN tags = << "Other" >>
    ELSE /\ Len(tags) = Cardinality(MatchedIn(frags))
         /\ \A n \in 1..Len(tags) :
                \E j \in MatchedIn(frags) : tags[n] = VALID_TAGS[j]
         /\ \A j \in MatchedIn(frags) :
                \E n \in 1..Len(tags) : tags[n] = VALID_TAGS[j]

\* The list the specification gives for an answer: the matched entries in
\* the order of VALID_TAGS.
InVocabularyOrder(tags, content) ==
    /\ ExactlyTheMatched(tags, FragmentsOf(content))
    /\ \A m, n \in 1..Len(tags) :
           m < n => VocabularyIndex(tags[m]) < VocabularyIndex(tags[n])

\* The matched entries in the order of the fragments they are first within,
\* those first within the same fragment in the order of VALID_TAGS.
InFragmentOrder(tags, content) ==
    LET frags == FragmentsOf(content)
    IN  /\ ExactlyTheMatched(tags, frags)
        /\ MatchedIn(frags) # {} =>
               \A m, n \in 1..Len(tags) :
                   m < n =>
                       LET a == VocabularyIndex(tags[m])
                           b == VocabularyIndex(tags[n])
                       IN  \/ FirstFragment(a, frags) < FirstFragment(b, frags)
                           \/ /\ FirstFragment(a, frags) = FirstFragment(b, frags)
                              /\ a < b

\* The lists tag_item stores for the answers, and those of them that are
\* as the specification gives them for some answer.
StoredLists == {TagsFor[content] : content \in TagResponses}
VocabularyOrderLists ==
    {tags \in StoredLists :
         \E content \in TagResponses : InVocabularyOrder(tags, content)}

\* For every answer, tag_item stores the list described above.
FragmentOrderForAll ==
    \A content \in TagResponses : InFragmentOrder(TagsFor[content], content)

\* C19 as the specification states it: the tags stored for an answer are
\* the matched entries of the vocabulary in the order of VALID_TAGS,
\* whatever the order of the fragments, or ["Other"].
C19_VocabularyScanOrder ==
    prog = "tag" =>
        \A k \in 1..Len(outcome) :
            outcome[k] = "ok" => Processed[k].tags \in VocabularyOrderLists

\* C19, amended: the tags stored for an answer are the matched entries of
\* the vocabulary, each once, in the order of the fragments of the answer
\* (an entry counting for the first fragment it is within), the entries of
\* one fragment in the order of VALID_TAGS; or ["Other"] when no entry is
\* within any fragment.
C19_FragmentOrder ==
    prog = "tag" =>
        /\ FragmentOrderForAll
        /\ \A k \in 1..Len(outcome) :
               outcome[k] = "ok" => Processed[k].tags \in StoredLists

\* C19 happens: the tagger has written a record whose tags follow the
\* fragments of the answer against the order of VALID_TAGS, and a record
\* with two tags out of one fragment.
C19_Witness ==
    /\ prog = "tag" /\ pc = "done" /\ fs["tagged"].st = "ok"
    /\ \E j, k \in 1..Len(fs["tagged"].data) :
           /\ fs["tagged"].data[j].tags = << "Code Generation", "Verification" >>
           /\ fs["tagged"].data[k].tags =
                  << "Security", "P&R", "Synthesis", "Testing", "Verification" >>

-----------------------------------------------------------------------------
(* C20: parsing of the classifier's answer *)

\* The token the prompt asks the service to answer with for a positive paper.
TrueToken == << "t", "r", "u", "e" >>

\* For each answer of the service: whether the stripped answer, compared
\* without regard to case, starts with the token "true".
StartsWithTrueToken ==
    [content \in ClassifyResponses |->
        startswith(classify_ans(content), TrueToken)]

\* C20: whenever a worker of the classifier receives an answer, the record's
\* ai_for_hw becomes true if and only if the stripped answer, compared without
\* regard to case, starts with the token "true": "True." gives true, "no"
\* gives false, and an answer starting with another word that begins with the
\* letter t (" That") gives false.
C20_TrueTokenOnly ==
    [][\A w \in Workers : \A content \in ClassifyResponses :
          CAnswer(w, content) =>
              data'[ItemOf(w)].ai_for_hw = StartsWithTrueToken[content]]_vars

-----------------------------------------------------------------------------
(* C21: number and distinctness of the tags tag_item assigns *)

\* No entry of tags appears twice.
NoDuplicates(tags) ==
    \A m, n \in 1..Len(tags) : m # n => tags[m] # tags[n]

\* For each answer of the service: tag_item's list has one to three entries.
OneToThreeFor == [content \in TagResponses |-> Len(TagsFor[content]) \in 1..3]

\* For each answer of the service: tag_item's list has no entry twice.
DistinctFor == [content \in TagResponses |-> NoDuplicates(TagsFor[content])]

\* C21: whenever a worker of the tagger receives an answer, the tags list
\* tag_item assigns to the record has between one and three entries and no
\* entry twice, also when the answer names more than three entries of the
\* vocabulary.
C21_OneToThreeDistinct ==
    [][\A w \in Workers : \A content \in TagResponses :
          TAnswer(w, content) =>
              /\ data'[ItemOf(w)].tags = TagsFor[content]
              /\ OneToThreeFor[content]
              /\ DistinctFor[content]]_vars

-----------------------------------------------------------------------------
(* C22: the progress counter *)

\* The workers that hold a record.
InFlight == {w \in Workers : wpc[w] # "idle"}

\* What holds of the counter in every state of a classifier or tagger run.
CounterExact ==
    Annotating =>
        /\ pc = "batch" =>
               \* the records handed out and not in flight are the counted ones
               /\ processed_count = (next_item - 1) - Cardinality(InFlight)
               /\ processed_count <= Len(items_to_process)
               \* the worker between the read and the write holds the lock
               /\ \A w \in Workers : wpc[w] = "locked" => lock = w
        /\ pc \notin {"start", "batch", "killed"} =>
               processed_count = Len(items_to_process)

\* What holds of every step of the batch that changes the counter.
CounterStep ==
    (Annotating /\ pc = "batch" /\ pc' = "batch"
                /\ processed_count' # processed_count) =>
        /\ processed_count' = processed_count + 1
        /\ \E w \in Workers :
               /\ lock = w
               /\ wpc[w] = "locked"
               /\ wpc'[w] = "idle"
               /\ outcome[witem[w]] \in {"ok", "failed", "skipped"}

\* C22: under every interleaving of the workers, the counter is incremented
\* once for each selected record whose process_wrapper has ended, by
\* success, failure or skip alike, each increment is made by the worker that
\* holds the lock, the counter never exceeds the number of selected records,
\* and once the batch has ended it equals that number.
C22_CounterExact == []CounterExact /\ [][CounterStep]_vars

\* Witness of C22: the batch of two selected records has ended, one record
\* failed for good and the other was answered, and the counter is 2.
C22_Witness ==
    /\ Annotating
    /\ pc = "save"
    /\ Len(items_to_process) = 2
    /\ \E j, k \in 1..2 : outcome[j] = "failed" /\ outcome[k] = "ok"
    /\ processed_count = 2

-----------------------------------------------------------------------------
(* C23: each record of the batch belongs to one worker *)

\* What holds of the records in flight in every state of the batch.
Ownership ==
    (Annotating /\ pc = "batch") =>
        \* a worker holds one record, one that was handed out, or none
        /\ \A w \in Workers :
               IF w \in InFlight
               THEN witem[w] \in 1..(next_item - 1)
               ELSE witem[w] = 0
        \* no two workers hold the same record
        /\ \A w, v \in InFlight :
               w # v => witem[w] # witem[v] /\ ItemOf(w) # ItemOf(v)
        \* a record handed out is resolved or held by a worker; a record not
        \* handed out yet is pending
        /\ \A k \in 1..Len(items_to_process) :
               IF k < next_item
               THEN outcome[k] = "pending" => \E w \in InFlight : witem[w] = k
               ELSE outcome[k] = "pending"
        \* the records handed out and not counted yet are at most jobs
        /\ (next_item - 1) - processed_count <= Jobs
        /\ Cardinality(InFlight) <= Jobs

\* What holds of every step of the batch.
OwnershipStep ==
    (Annotating /\ pc = "batch" /\ pc' = "batch") =>
        \* a worker gets a record only when it is free, and it is the next
        \* record, which is handed out to it alone
        /\ \A w \in Workers :
               (witem'[w] # witem[w] /\ witem'[w] # 0) =>
                   /\ wpc[w] = "idle"
                   /\ witem'[w] = next_item
                   /\ next_item' = next_item + 1
                   /\ \A v \in Workers \ {w} : witem'[v] = witem[v]
        \* records are written by the worker that holds them, one at a time
        /\ data' # data =>
               \E w \in Workers :
                   /\ wpc[w] = "call"
                   /\ \A p \in 1..Len(data) :
                          p # ItemOf(w) => data'[p] = data[p]
                   /\ \A v \in InFlight \ {w} : ItemOf(v) # ItemOf(w)

\* C23: during a batch each selected record is handed to one worker, once;
\* a worker holds at most one record at a time; a record is written only by
\* the worker that holds it, so no two workers write the same record; and at
\* most jobs records are in flight.
C23_ExclusiveOwnership == []Ownership /\ [][OwnershipStep]_vars

\* Witness of C23: two workers are in flight on different records, one has
\* stored the answer of its call on its record and the other is in its call.
C23_Witness ==
    /\ Annotating
    /\ pc = "batch"
    /\ \E w, v \in Workers :
           /\ w # v
           /\ wpc[w] = "finally" /\ outcome[witem[w]] = "ok"
           /\ wpc[v] = "call" /\ outcome[witem[v]] = "pending"
           /\ ItemOf(w) # ItemOf(v)

-----------------------------------------------------------------------------
(* C24: the batch is complete before the output is written *)

\* The primary output of the script and the temporary file it is written by.
OutputPath == IF prog = "classify" THEN "labeled" ELSE "tagged"
OutputTemp == IF prog = "classify" THEN "labeled.tmp" ELSE "tagged"

\* Every selected record is resolved and no worker holds a record.
AllResolved ==
    /\ InFlight = {}
    /\ next_item > Len(items_to_process)
    /\ \A k \in 1..Len(outcome) : outcome[k] \in Resolved

\* The positions of main at and after the primary write.
Saving == {"save", "save_dump", "save_rename", "dump", "filter",
           "filter_dump", "filter_rename", "done", "exit1"}

\* In the batch the output is as the run found it; at and after the write
\* every record is resolved.
OutputAfterBatch ==
    Annotating =>
        /\ pc = "batch" =>
               /\ fs[OutputPath] = old[OutputPath]
               /\ fs[OutputTemp] = old[OutputTemp]
        /\ pc \in Saving => AllResolved

\* A step that touches the output or its temporary file is a step of main
\* at the write, with every record resolved.
OutputStep ==
    (/\ Annotating
     /\ \/ fs'[OutputPath] # fs[OutputPath]
        \/ fs'[OutputTemp] # fs[OutputTemp]) =>
        /\ pc \in Saving
        /\ AllResolved

\* C24: in the classifier and in the tagger the primary output is written
\* only when every selected record is resolved, by success or by permanent
\* failure; the output file is not touched while records are in flight; and,
\* every external call returning or failing in the end, a run that is in
\* its batch reaches the primary write, however many records fail, unless
\* the process is terminated from outside.
C24_BatchBeforeWrite ==
    /\ []OutputAfterBatch
    /\ [][OutputStep]_vars
    /\ (Annotating /\ pc = "batch") ~> (pc \in {"save", "killed"})

\* Witness of C24: both of two selected records failed for good, and the run
\* has written its primary output and ended.
C24_Witness ==
    /\ Annotating
    /\ pc = "done"
    /\ Len(items_to_process) = 2
    /\ \A k \in 1..2 : outcome[k] = "failed"
    /\ nwrites >= 1
    /\ fs[OutputPath] = File(final_data)

-----------------------------------------------------------------------------
(* C25: the baseline's records in the classifier's output *)

\* Record r is record i, but for a value of ai_for_hw.
SameButLabel(r, i) ==
    /\ DOMAIN r \ {"ai_for_hw"} = DOMAIN i \ {"ai_for_hw"}
    /\ \A f \in DOMAIN i \ {"ai_for_hw"} : r[f] = i[f]

\* The primary write of the classifier's run has returned.
PrimaryWritten ==
    /\ prog = "classify"
    /\ pc \in {"filter", "filter_dump", "filter_rename", "done"}
    /\ nwrites >= 1

\* C25: when a run of the classifier that found a baseline has written its
\* primary output, the output is the baseline, record by record in the same
\* order and with the same fields, followed by the selected records of the
\* input in the order of the input, each as in the input but for its label;
\* no selected record has a non-empty identifier of the baseline; with force
\* set as without.
C25_BaselineUntouched ==
    (PrimaryWritten /\ WithBaseline) =>
        LET written == fs["labeled"].data
            n == Len(Baseline)
        IN  /\ Len(written) = n + Len(items_to_process)
            /\ SubSeq(written, 1, n) = Baseline
            /\ \A j \in 1..Len(items_to_process) :
                   /\ written[n + j] = data[items_to_process[j]]
                   /\ SameButLabel(written[n + j], Input[items_to_process[j]])
                   /\ Input[items_to_process[j]].url \notin TruthyUrls(Baseline)
                   /\ \A k \in 1..(j - 1) :
                          items_to_process[k] < items_to_process[j]

\* Witness of C25: a forced run with a baseline has written its output; a
\* record of the baseline is in the input as well, and a record of the
\* input that is not in the baseline was selected and answered.
C25_Witness ==
    /\ PrimaryWritten
    /\ WithBaseline
    /\ args.overwrite
    /\ pc = "done"
    /\ \E k \in 1..Len(Input) : Input[k].url \in TruthyUrls(Baseline)
    /\ Len(items_to_process) >= 1
    /\ outcome[1] = "ok"

-----------------------------------------------------------------------------
(* C26: a failed classification and the next run *)

\* The classifier runs again, without force, on the input of the run before
\* and with that run's primary output as the baseline.
ClassifierRunsAgain ==
    /\ prog = "classify"
    /\ run > 1
    /\ ~args.overwrite
    /\ WithBaseline
    /\ UrlsOf(Input) \subseteq UrlsOf(Baseline)
    /\ pc \notin {"start", "killed", "crash", "exit1"}

\* The record at position k of the input was persisted without a label: its
\* classification failed for good in the run before.
FailedBefore(k) ==
    /\ ~Has(Input[k], "ai_for_hw")
    /\ \E e \in 1..Len(Baseline) :
           /\ Baseline[e].url = Input[k].url
           /\ ~Has(Baseline[e], "ai_for_hw")

\* C26: when the classifier runs again, without force, on the same input and
\* with its previous primary output as the baseline, every record whose
\* classification failed for good in the run before is selected again, and
\* when the service has answered every call of the run, no record of the
\* written primary collection is without ai_for_hw.
C26_ClassificationResumes ==
    ClassifierRunsAgain =>
        /\ \A k \in 1..Len(Input) : FailedBefore(k) => k \in SelectedPositions
        /\ (pc = "done" /\ \A j \in 1..Len(outcome) : outcome[j] = "ok") =>
               \A e \in 1..Len(fs["labeled"].data) :
                   Has(fs["labeled"].data[e], "ai_for_hw")

-----------------------------------------------------------------------------
(* C27: a failed tagging and the next run *)

\* The tagger runs again, without force, on the input of the run before and
\* with the output that run wrote.
TaggerRunsAgain ==
    /\ prog = "tag"
    /\ run > 1
    /\ ~args.overwrite
    /\ old["tagged"].st = "ok"
    /\ UrlsOf(TInput) \subseteq UrlsOf(Existing)
    /\ pc \notin {"start", "killed", "crash", "exit1"}

\* The record at position k of the input was persisted with the sentinel:
\* its tagging failed for good in the run before.
SentinelBefore(k) ==
    \E e \in 1..Len(Existing) :
        /\ Existing[e].url = TInput[k].url
        /\ Has(Existing[e], "tags")
        /\ Existing[e].tags = << "Error" >>

\* C27: when the tagger runs again, without force, on the same input and
\* output, every record persisted with the tags ["Error"] is selected again,
\* and when the service has answered every call of the run, no record of the
\* written collection has the sentinel any more.
C27_TaggingResumes ==
    TaggerRunsAgain =>
        /\ \A k \in 1..Len(TInput) : SentinelBefore(k) => k \in SelectedPositions
        /\ (pc = "done" /\ \A j \in 1..Len(outcome) : outcome[j] = "ok") =>
               \A e \in 1..Len(fs["tagged"].data) :
                   Has(fs["tagged"].data[e], "tags") =>
                       fs["tagged"].data[e].tags # << "Error" >>

-----------------------------------------------------------------------------
(* C28: running a script again on what it wrote *)

\* Every record of s has a non-empty identifier.
Identified(s) == \A k \in 1..Len(s) : s[k].url # ""

\* The classifier runs again with the primary output of the run before as
\* the baseline and on the same input: the input of a later run is that of
\* the run before, or that with one more record, of a new identifier, in
\* front, and the output of the run before has every record of its input.
SecondClassifierRun ==
    /\ prog = "classify"
    /\ run > 1
    /\ pc # "start"
    /\ WithBaseline
    /\ Identified(Input)
    /\ UrlsOf(Input) \subseteq UrlsOf(Baseline)

\* The tagger runs again, without force, on its own output and on the same
\* input.
SecondTaggerRun ==
    /\ prog = "tag"
    /\ run > 1
    /\ pc # "start"
    /\ ~args.overwrite
    /\ old["tagged"].st = "ok"
    /\ Identified(TInput)
    /\ UrlsOf(TInput) \subseteq UrlsOf(Existing)

\* C28: with non-empty identifiers throughout, a second run of the
\* classifier on the same input and with its previous primary output as the
\* baseline selects no record, makes no call and leaves the primary
\* collection, which it writes again, equal to the previous one; a second
\* run of the tagger without force on the same input and on its previous
\* output selects no record, makes no call and writes a collection equal to
\* the previous one.
C28_IdempotentRerun ==
    /\ SecondClassifierRun =>
           /\ items_to_process = <<>>
           /\ NoCall
           /\ fs["labeled"] = old["labeled"]
           /\ pc \in {"save", "save_dump", "save_rename"} =>
                  final_data = old["labeled"].data
    /\ SecondTaggerRun =>
           /\ items_to_process = <<>>
           /\ NoCall
           /\ pc \in {"save", "dump"} => SortDesc(final_data) = old["tagged"].data
           /\ pc = "done" => fs["tagged"] = old["tagged"]

\* Witness of C28: the second run of the classifier, on two records with the
\* output of the first run as the baseline, has written its primary output
\* and ended.
C28_Witness ==
    /\ SecondClassifierRun
    /\ pc = "done"
    /\ nwrites >= 1
    /\ Len(Input) = 2
    /\ \E k \in 1..Len(Baseline) : Has(Baseline[k], "ai_for_hw")

\* The second run of the tagger, on two records and on the output of the
\* first run, has written its output and ended.
SecondTaggerRunEnded ==
    /\ SecondTaggerRun
    /\ pc = "done"
    /\ nwrites = 1
    /\ Len(TInput) = 2

=============================================================================
